---- MODULE Spec2Model ----
(***************************************************************************)
(* Model of the trivia API service (backend/flaskr/__init__.py).           *)
(*                                                                         *)
(* The store is the questions table (rows in query order), the id          *)
(* sequence of that table and the categories table.  Every route handler   *)
(* is an operator from the request and the store to the result of the      *)
(* view function (a JSON body, an aborted HTTPException, or another        *)
(* raised exception); handle_user_exception turns that result into the     *)
(* response, as the two registered error handlers do.  One action per      *)
(* route performs the whole request.                                       *)
(***************************************************************************)
EXTENDS Integers, Sequences, FiniteSets, TLC

VARIABLES questions, next_id, categories, used_ids, request, response,
          session_category, session_previous, session_calls, session_done

vars == <<questions, next_id, categories, used_ids, request, response,
          session_category, session_previous, session_calls, session_done>>

\* the tables; used_ids records every id a row of questions has ever had
store == <<questions, next_id, categories, used_ids>>
session == <<session_category, session_previous, session_calls, session_done>>

(***************************************************************************)
(* Bounds of the model.                                                    *)
(***************************************************************************)
\* largest question id the id sequence hands out under Spec
MaxId == 3
\* largest seeded questions table under SpecPage
MaxSeed == 12
\* largest seeded questions table of a quiz session
MaxSession == 4
\* longest searchTerm, in pattern tokens
MaxTermLen == 2
\* longest page query parameter, in characters
MaxPageLen == 2
\* longest previous_questions list a request of Spec carries
MaxPrevLen == 2

\* the literal 10 of the pagination arithmetic
PageSize == 10

SeqsUpTo(S, n) == UNION {[1..k -> S] : k \in 0..n}

Max(a, b) == IF a > b THEN a ELSE b
Min(a, b) == IF a < b THEN a ELSE b

(***************************************************************************)
(* JSON values of a request: absent (or null), a string (a sequence of     *)
(* characters) or an integer.                                              *)
(***************************************************************************)
Absent == [t |-> "absent", s |-> <<>>, n |-> 0]
Str(s) == [t |-> "str", s |-> s, n |-> 0]
Int_(n) == [t |-> "int", s |-> <<>>, n |-> n]

\* Python truthiness of a JSON value: None, "" and 0 are falsy
Truthy(v) == \/ v.t = "str" /\ v.s # <<>>
             \/ v.t = "int" /\ v.n # 0

\* quiz_category: absent, or a JSON object with the keys `keys`
NoCategory == [t |-> "absent", keys |-> {}, id |-> 0]
CategoryObj(keys, id) == [t |-> "obj", keys |-> keys, id |-> id]
\* a dict is truthy when it is not empty
TruthyObj(o) == o.t = "obj" /\ o.keys # {}

\* previous_questions: absent, or a JSON list of ids
NoList == [t |-> "absent", l |-> <<>>]
List(l) == [t |-> "list", l |-> l]

EmptyJson == [question |-> Absent, answer |-> Absent, category |-> Absent,
              difficulty |-> Absent, searchTerm |-> Absent,
              previous_questions |-> NoList, quiz_category |-> NoCategory]

NoRequest == [op |-> "none", method |-> "", path |-> "", page |-> Absent,
              question_id |-> 0, category_id |-> 0, json |-> EmptyJson]

(***************************************************************************)
(* Results of a view function and responses.                               *)
(***************************************************************************)
EmptyBody == [keys |-> {}, questions |-> <<>>, total_questions |-> 0,
              categories |-> <<>>, deleted |-> 0, question |-> <<>>,
              current_category |-> 0, success |-> TRUE, error |-> 0,
              message |-> ""]

\* jsonify(body) returned by the view
Returned(body) == [raised |-> "none", code |-> 200, description |-> "",
                   body |-> body]
\* abort(code, description): raises an HTTPException
abort(code, description) == [raised |-> "HTTPException", code |-> code,
                             description |-> description, body |-> EmptyBody]
\* any other exception raised inside the view
Raise(name) == [raised |-> "Exception", code |-> 0, description |-> name,
                body |-> EmptyBody]

NoResponse == [status |-> 0, json |-> TRUE, headers |-> {}, body |-> EmptyBody]

\* http_exception_handler returning the body without the status code
http_exception_handler_status_200(error) ==
    [status |-> 200, json |-> TRUE, headers |-> {},
     body |-> [EmptyBody EXCEPT !.keys = {"success", "error", "message"},
                                !.success = FALSE,
                                !.error = error.code,
                                !.message = error.description]]

http_exception_handler(error) ==
    [status |-> error.code, json |-> TRUE, headers |-> {},
     body |-> [EmptyBody EXCEPT !.keys = {"success", "error", "message"},
                                !.success = FALSE,
                                !.error = error.code,
                                !.message = error.description]]

exception_handler(error) ==
    [status |-> 500, json |-> TRUE, headers |-> {},
     body |-> [EmptyBody EXCEPT !.keys = {"success", "error", "message"},
                                !.success = FALSE,
                                !.error = 500,
                                !.message = "Something went wrong"]]

\* the handler registered for the class of the raised exception answers;
\* an exception with no registered handler would leave the view uncaught
handle_user_exception(result) ==
    CASE result.raised = "none" ->
            [status |-> 200, json |-> TRUE, headers |-> {},
             body |-> result.body]
      [] result.raised = "HTTPException" -> http_exception_handler(result)
      [] result.raised = "Exception" -> exception_handler(result)
      [] OTHER -> [status |-> 500, json |-> FALSE, headers |-> {},
                   body |-> EmptyBody]

\* the after_request hook: every response leaves with the CORS headers
set_headers(resp) ==
    [resp EXCEPT !.headers = @ \cup {"Access-Control-Allow-Headers",
                                     "Access-Control-Allow-Methods"}]

\* what the application answers to the result of a view function
full_dispatch_request(result) == set_headers(handle_user_exception(result))

(***************************************************************************)
(* The tables.                                                             *)
(***************************************************************************)
\* Question.format(): the row as a dictionary
format(q) == [id |-> q.id, question |-> q.question, answer |-> q.answer,
              category |-> q.category, difficulty |-> q.difficulty]

\* Question(question, answer, category, difficulty) followed by insert():
\* the row gets the next value of the id sequence
insert(qs, nid, question, answer, category, difficulty) ==
    [questions |-> Append(qs, [id |-> nid, question |-> question.s,
                               answer |-> answer.s, category |-> category.n,
                               difficulty |-> difficulty.n]),
     next_id |-> nid + 1]

\* Question.delete(): the row leaves the table
delete(qs, q) == SelectSeq(qs, LAMBDA r : r.id # q.id)

\* Question.query.get(id): the rows with that primary key (none or one)
query_get(qs, id) == SelectSeq(qs, LAMBDA r : r.id = id)

FormatAll(qs) == [i \in 1..Len(qs) |-> format(qs[i])]

Ids(qs) == {qs[i].id : i \in 1..Len(qs)}
Rows(qs) == {qs[i] : i \in 1..Len(qs)}

(***************************************************************************)
(* int(str) of Python: an optional sign followed by decimal digits.        *)
(***************************************************************************)
IsDigit(c) == c \in {"0", "1", "2", "3", "4", "5", "6", "7", "8", "9"}

DigitVal(c) == CASE c = "0" -> 0 [] c = "1" -> 1 [] c = "2" -> 2
                 [] c = "3" -> 3 [] c = "4" -> 4 [] c = "5" -> 5
                 [] c = "6" -> 6 [] c = "7" -> 7 [] c = "8" -> 8
                 [] c = "9" -> 9 [] OTHER -> 0

RECURSIVE DecVal(_)
DecVal(d) == IF d = <<>> THEN 0
             ELSE 10 * DecVal(SubSeq(d, 1, Len(d) - 1)) + DigitVal(d[Len(d)])

\* [ok, val]: ok is FALSE where int() raises ValueError
ParseInt(s) ==
    LET signed == Len(s) > 0 /\ s[1] \in {"-", "+"}
        digits == IF signed THEN Tail(s) ELSE s
        ok == Len(digits) > 0 /\ \A i \in 1..Len(digits) : IsDigit(digits[i])
    IN [ok |-> ok,
        val |-> IF ~ok THEN 0
                ELSE IF signed /\ s[1] = "-" THEN 0 - DecVal(digits)
                ELSE DecVal(digits)]

\* seq[lo:hi] of Python, indices from 0, negative indices from the end
PySlice(seq, lo, hi) ==
    LET n == Len(seq)
        l == IF lo < 0 THEN Max(lo + n, 0) ELSE Min(lo, n)
        h == IF hi < 0 THEN Max(hi + n, 0) ELSE Min(hi, n)
    IN IF l < h THEN SubSeq(seq, l + 1, h) ELSE <<>>

(***************************************************************************)
(* re.search(pattern, text, re.IGNORECASE) for patterns made of literal    *)
(* characters, "." and grouping parentheses.                               *)
(***************************************************************************)
Lower(c) == CASE c = "A" -> "a" [] c = "B" -> "b" [] OTHER -> c

RECURSIVE Balanced(_, _)
\* the parentheses of p close in order: re.compile raises re.error otherwise
Balanced(p, depth) ==
    IF p = <<>> THEN depth = 0
    ELSE IF p[1] = "(" THEN Balanced(Tail(p), depth + 1)
    ELSE IF p[1] = ")" THEN depth > 0 /\ Balanced(Tail(p), depth - 1)
    ELSE Balanced(Tail(p), depth)

ValidPattern(p) == Balanced(p, 0)

\* a group of a concatenation matches what its content matches
Ungrouped(p) == SelectSeq(p, LAMBDA tok : tok \notin {"(", ")"})

TokenMatches(tok, ch) == tok = "." \/ Lower(tok) = Lower(ch)

MatchAt(p, text, i) ==
    /\ i + Len(p) - 1 <= Len(text)
    /\ \A k \in 1..Len(p) : TokenMatches(p[k], text[i + k - 1])

re_search(p, text) ==
    \E i \in 1..(Len(text) + 1) : MatchAt(Ungrouped(p), text, i)

(***************************************************************************)
(* The view functions.                                                     *)
(***************************************************************************)
get_all_categories(cats) ==
    Returned([EmptyBody EXCEPT !.keys = {"categories"}, !.categories = cats])

\* get_questions with total_questions taken from the page it returns
get_questions_total_of_page(page, qs, cats) ==
    LET all == FormatAll(qs)
        parsed == ParseInt(IF page.t = "absent" THEN <<"0">> ELSE page.s)
        upper_limit == parsed.val * PageSize
        lower_limit == upper_limit - PageSize
        shown == IF parsed.val # 0
                 THEN PySlice(all, lower_limit, upper_limit) ELSE all
    IN IF ~parsed.ok THEN Raise("ValueError")
       ELSE Returned([EmptyBody EXCEPT
                !.keys = {"questions", "total_questions", "categories"},
                !.questions = shown,
                !.total_questions = Len(shown),
                !.categories = cats])

get_questions(page, qs, cats) ==
    LET all == FormatAll(qs)
        parsed == ParseInt(IF page.t = "absent" THEN <<"0">> ELSE page.s)
        upper_limit == parsed.val * PageSize
        lower_limit == upper_limit - PageSize
    IN IF ~parsed.ok THEN Raise("ValueError")
       ELSE Returned([EmptyBody EXCEPT
                !.keys = {"questions", "total_questions", "categories"},
                !.questions = IF parsed.val # 0
                              THEN PySlice(all, lower_limit, upper_limit)
                              ELSE all,
                !.total_questions = Len(all),
                !.categories = cats])

\* delete_question without the call of question.delete()
delete_question_keeps_row(question_id, qs) ==
    LET question == query_get(qs, question_id)
    IN IF question = <<>>
       THEN [result |-> abort(404, "No question found with id"),
             questions |-> qs]
       ELSE [result |-> Returned([EmptyBody EXCEPT !.keys = {"deleted"},
                                                   !.deleted = question_id]),
             questions |-> qs]

\* [result, questions]
delete_question(question_id, qs) ==
    LET question == query_get(qs, question_id)
    IN IF question = <<>>
       THEN [result |-> abort(404, "No question found with id"),
             questions |-> qs]
       ELSE [result |-> Returned([EmptyBody EXCEPT !.keys = {"deleted"},
                                                   !.deleted = question_id]),
             questions |-> delete(qs, question[1])]

\* post_question rejecting a body only when all four fields are falsy
post_question_any_field(json, qs, nid) ==
    IF ~(Truthy(json.question) \/ Truthy(json.answer)
         \/ Truthy(json.category) \/ Truthy(json.difficulty))
    THEN [result |-> abort(400, "Required question object keys missing"),
          questions |-> qs, next_id |-> nid]
    ELSE LET inserted == insert(qs, nid, json.question, json.answer,
                                json.category, json.difficulty)
             question_entry == inserted.questions[Len(inserted.questions)]
         IN [result |-> Returned([EmptyBody EXCEPT
                            !.keys = {"question"},
                            !.question = <<format(question_entry)>>]),
             questions |-> inserted.questions,
             next_id |-> inserted.next_id]

\* post_question inserting the row before it validates the body
post_question_insert_first(json, qs, nid) ==
    LET inserted == insert(qs, nid, json.question, json.answer,
                           json.category, json.difficulty)
        question_entry == inserted.questions[Len(inserted.questions)]
    IN [result |-> IF ~(Truthy(json.question) /\ Truthy(json.answer)
                        /\ Truthy(json.category) /\ Truthy(json.difficulty))
                   THEN abort(400, "Required question object keys missing")
                   ELSE Returned([EmptyBody EXCEPT
                            !.keys = {"question"},
                            !.question = <<format(question_entry)>>]),
        questions |-> inserted.questions,
        next_id |-> inserted.next_id]

\* [result, questions, next_id]
post_question(json, qs, nid) ==
    IF ~(Truthy(json.question) /\ Truthy(json.answer)
         /\ Truthy(json.category) /\ Truthy(json.difficulty))
    THEN [result |-> abort(400, "Required question object keys missing"),
          questions |-> qs, next_id |-> nid]
    ELSE LET inserted == insert(qs, nid, json.question, json.answer,
                                json.category, json.difficulty)
             question_entry == inserted.questions[Len(inserted.questions)]
         IN [result |-> Returned([EmptyBody EXCEPT
                            !.keys = {"question"},
                            !.question = <<format(question_entry)>>]),
             questions |-> inserted.questions,
             next_id |-> inserted.next_id]

\* re.search without re.IGNORECASE
re_search_cased(p, text) ==
    LET u == Ungrouped(p)
    IN \E i \in 1..(Len(text) + 1) :
          /\ i + Len(u) - 1 <= Len(text)
          /\ \A k \in 1..Len(u) : u[k] = "." \/ u[k] = text[i + k - 1]

\* search matching the case of the term
search_case_sensitive(json, qs) ==
    LET search_term == IF json.searchTerm.t = "absent" THEN <<>>
                       ELSE json.searchTerm.s
        found == SelectSeq(qs,
                     LAMBDA q : re_search_cased(search_term, q.question))
    IN IF qs # <<>> /\ ~ValidPattern(search_term) THEN Raise("re.error")
       ELSE Returned([EmptyBody EXCEPT
                !.keys = {"questions", "total_questions"},
                !.questions = FormatAll(found),
                !.total_questions = Len(FormatAll(found))])

search(json, qs) ==
    LET search_term == IF json.searchTerm.t = "absent" THEN <<>>
                       ELSE json.searchTerm.s
        found == SelectSeq(qs, LAMBDA q : re_search(search_term, q.question))
    IN \* re.search runs once per row: a bad pattern raises on the first row
       IF qs # <<>> /\ ~ValidPattern(search_term) THEN Raise("re.error")
       ELSE Returned([EmptyBody EXCEPT
                !.keys = {"questions", "total_questions"},
                !.questions = FormatAll(found),
                !.total_questions = Len(FormatAll(found))])

\* get_questions_by_category counting the whole table
get_questions_by_category_total_all(category_id, qs) ==
    IF category_id = 0 THEN abort(400, "Invalid category id")
    ELSE LET found == FormatAll(SelectSeq(qs,
                          LAMBDA q : q.category = category_id))
         IN Returned([EmptyBody EXCEPT
                !.keys = {"questions", "total_questions", "current_category"},
                !.questions = found,
                !.total_questions = Len(qs),
                !.current_category = category_id])

get_questions_by_category(category_id, qs) ==
    IF category_id = 0 THEN abort(400, "Invalid category id")
    ELSE LET found == FormatAll(SelectSeq(qs,
                          LAMBDA q : q.category = category_id))
         IN Returned([EmptyBody EXCEPT
                !.keys = {"questions", "total_questions", "current_category"},
                !.questions = found,
                !.total_questions = Len(found),
                !.current_category = category_id])

InList(id, l) == \E i \in 1..Len(l) : l[i] = id

\* get_quiz_questions that forgets previous_questions for "any category"
get_quiz_questions_any_previous(json, qs) ==
    LET previous_questions == json.previous_questions
        quiz_category == json.quiz_category
        category_id == quiz_category.id
        candidates == {q \in Rows(qs) :
                          category_id # 0 =>
                              /\ q.category = category_id
                              /\ ~InList(q.id, previous_questions.l)}
    IN IF ~TruthyObj(quiz_category)
       THEN {abort(400, "Required keys missing from request body")}
       ELSE IF "id" \notin quiz_category.keys
       THEN {Raise("TypeError")}
       ELSE IF previous_questions.t = "absent"
       THEN {Raise("ArgumentError")}
       ELSE IF candidates = {}
       THEN {Returned(EmptyBody)}
       ELSE {Returned([EmptyBody EXCEPT !.keys = {"question"},
                                        !.question = <<format(q)>>]) :
                q \in candidates}

\* get_quiz_questions that excludes only the last question seen
get_quiz_questions_last_seen(json, qs) ==
    LET previous_questions == json.previous_questions
        quiz_category == json.quiz_category
        category_id == quiz_category.id
        seen == previous_questions.l
        candidates == {q \in Rows(qs) :
                          /\ category_id # 0 => q.category = category_id
                          /\ seen # <<>> => q.id # seen[Len(seen)]}
    IN IF ~TruthyObj(quiz_category)
       THEN {abort(400, "Required keys missing from request body")}
       ELSE IF "id" \notin quiz_category.keys
       THEN {Raise("TypeError")}
       ELSE IF previous_questions.t = "absent"
       THEN {Raise("ArgumentError")}
       ELSE IF candidates = {}
       THEN {Returned(EmptyBody)}
       ELSE {Returned([EmptyBody EXCEPT !.keys = {"question"},
                                        !.question = <<format(q)>>]) :
                q \in candidates}

\* the set of results the random order of the query allows
get_quiz_questions(json, qs) ==
    LET previous_questions == json.previous_questions
        quiz_category == json.quiz_category
        category_id == quiz_category.id
        candidates == {q \in Rows(qs) :
                          /\ category_id # 0 => q.category = category_id
                          /\ ~InList(q.id, previous_questions.l)}
    IN IF ~TruthyObj(quiz_category)
       THEN {abort(400, "Required keys missing from request body")}
       ELSE IF "id" \notin quiz_category.keys
       THEN {Raise("TypeError")}
       ELSE IF previous_questions.t = "absent"
       THEN {Raise("ArgumentError")}
       ELSE IF candidates = {}
       THEN {Returned(EmptyBody)}
       ELSE {Returned([EmptyBody EXCEPT !.keys = {"question"},
                                        !.question = <<format(q)>>]) :
                q \in candidates}

(***************************************************************************)
(* The URL map: the rules of the app.route decorators.                     *)
(***************************************************************************)
url_map == {
    [rule |-> "/categories", methods |-> {"GET"}],
    [rule |-> "/questions", methods |-> {"GET"}],
    [rule |-> "/questions/<int>", methods |-> {"DELETE"}],
    [rule |-> "/questions", methods |-> {"POST"}],
    [rule |-> "/search", methods |-> {"POST"}],
    [rule |-> "/categories/<int>/questions", methods |-> {"GET"}],
    [rule |-> "/quizzes", methods |-> {"POST"}]}

\* a route with GET also answers HEAD, every route answers OPTIONS
Allowed(path) ==
    UNION {r.methods \cup {"OPTIONS"}
              \cup (IF "GET" \in r.methods THEN {"HEAD"} ELSE {}) :
           r \in {u \in url_map : u.rule = path}}

\* the routing exception of a request no view function serves
match_request(method, path) ==
    IF Allowed(path) = {} THEN abort(404, "Not Found")
    ELSE abort(405, "Method Not Allowed")

(***************************************************************************)
(* Requests the clients send.                                              *)
(***************************************************************************)
Categories == <<"Science", "Art">>

Texts == {<<"a">>, <<"A", "b">>}
QuestionInputs == {Absent, Str(<<>>)} \cup {Str(t) : t \in Texts}
AnswerInputs == {Absent, Str(<<>>), Str(<<"b">>)}
CategoryInputs == {Absent, Int_(0), Int_(1), Int_(2)}
DifficultyInputs == {Absent, Int_(0), Int_(1)}

PageChars == {"0", "1", "2", "-", "a"}
PageInputs == {Absent} \cup {Str(s) : s \in SeqsUpTo(PageChars, MaxPageLen)}

PatternTokens == {"a", "B", ".", "(", ")"}
TermInputs == {Absent} \cup
              {Str(s) : s \in SeqsUpTo(PatternTokens, MaxTermLen)}

QuestionIdInputs == 0..MaxId
CategoryIdInputs == {0, 1, 2, 3}

QuizCategoryInputs ==
    {NoCategory, CategoryObj({}, 0), CategoryObj({"type"}, 0)}
    \cup {CategoryObj({"id", "type"}, k) : k \in {0, 1, 2}}
PreviousInputs == {NoList} \cup
                  {List(l) : l \in SeqsUpTo(1..MaxId, MaxPrevLen)}

Methods == {"GET", "POST", "DELETE", "PATCH"}
Paths == {r.rule : r \in url_map} \cup {"/unknown"}

\* the table after n creations and no deletion
Seed(n) == [i \in 1..n |->
               [id |-> i,
                question |-> IF i % 2 = 1 THEN <<"a">> ELSE <<"A", "b">>,
                answer |-> <<"b">>,
                category |-> (i % 2) + 1,
                difficulty |-> 1]]

\* the tables after up to max creations and at most one deletion
Tables(max) ==
    {[questions |-> Seed(n), next_id |-> n + 1] : n \in 0..max}
    \cup UNION {{[questions |-> delete(Seed(n), Seed(n)[k]),
                  next_id |-> n + 1] : k \in 1..n} : n \in 1..max}

Req(op, method, path) ==
    [NoRequest EXCEPT !.op = op, !.method = method, !.path = path]

(***************************************************************************)
(* One action per request.  A request is served from start to finish       *)
(* before the next one is taken; Reply hands the response to the client.   *)
(***************************************************************************)
Idle == request.op = "none"

GetAllCategories ==
    /\ Idle
    /\ request' = Req("get_all_categories", "GET", "/categories")
    /\ response' = full_dispatch_request(get_all_categories(categories))
    /\ UNCHANGED <<store, session>>

GetQuestions ==
    /\ Idle
    /\ \E page \in PageInputs :
        /\ request' = [Req("get_questions", "GET", "/questions")
                          EXCEPT !.page = page]
        /\ response' = full_dispatch_request(
                           get_questions(page, questions, categories))
        /\ UNCHANGED <<store, session>>

DeleteQuestion ==
    /\ Idle
    /\ \E question_id \in QuestionIdInputs :
        LET out == delete_question(question_id, questions)
        IN /\ request' = [Req("delete_question", "DELETE", "/questions/<int>")
                             EXCEPT !.question_id = question_id]
           /\ response' = full_dispatch_request(out.result)
           /\ questions' = out.questions
           /\ UNCHANGED <<next_id, categories, used_ids, session>>

PostQuestion ==
    /\ Idle
    /\ \E q \in QuestionInputs, a \in AnswerInputs,
          c \in CategoryInputs, d \in DifficultyInputs :
        LET json == [EmptyJson EXCEPT !.question = q, !.answer = a,
                                      !.category = c, !.difficulty = d]
            out == post_question(json, questions, next_id)
        IN /\ out.next_id <= MaxId + 1
           /\ request' = [Req("post_question", "POST", "/questions")
                             EXCEPT !.json = json]
           /\ response' = full_dispatch_request(out.result)
           /\ questions' = out.questions
           /\ next_id' = out.next_id
           /\ used_ids' = used_ids \cup Ids(out.questions)
           /\ UNCHANGED <<categories, session>>

Search ==
    /\ Idle
    /\ \E term \in TermInputs :
        LET json == [EmptyJson EXCEPT !.searchTerm = term]
        IN /\ request' = [Req("search", "POST", "/search")
                             EXCEPT !.json = json]
           /\ response' = full_dispatch_request(search(json, questions))
           /\ UNCHANGED <<store, session>>

GetQuestionsByCategory ==
    /\ Idle
    /\ \E category_id \in CategoryIdInputs :
        /\ request' = [Req("get_questions_by_category", "GET",
                           "/categories/<int>/questions")
                          EXCEPT !.category_id = category_id]
        /\ response' = full_dispatch_request(
                           get_questions_by_category(category_id, questions))
        /\ UNCHANGED <<store, session>>

GetQuizQuestions ==
    /\ Idle
    /\ \E previous \in PreviousInputs, category \in QuizCategoryInputs :
        LET json == [EmptyJson EXCEPT !.previous_questions = previous,
                                      !.quiz_category = category]
        IN \E result \in get_quiz_questions(json, questions) :
              /\ request' = [Req("get_quiz_questions", "POST", "/quizzes")
                                EXCEPT !.json = json]
              /\ response' = full_dispatch_request(result)
              /\ UNCHANGED <<store, session>>

\* a request the URL map serves with no view function
RouteError ==
    /\ Idle
    /\ \E method \in Methods, path \in Paths :
        /\ method \notin Allowed(path)
        /\ request' = Req("routing", method, path)
        /\ response' = full_dispatch_request(match_request(method, path))
        /\ UNCHANGED <<store, session>>

\* the response is sent and the request is over
Reply ==
    /\ ~Idle
    /\ request' = NoRequest
    /\ response' = NoResponse
    /\ UNCHANGED <<store, session>>

\* the quiz client: sends what it has seen, keeps the id it is given
QuizSession ==
    /\ Idle
    /\ ~session_done
    /\ LET json == [EmptyJson EXCEPT
                       !.previous_questions = List(session_previous),
                       !.quiz_category =
                           CategoryObj({"id", "type"}, session_category)]
       IN \E result \in get_quiz_questions(json, questions) :
             /\ request' = [Req("get_quiz_questions", "POST", "/quizzes")
                               EXCEPT !.json = json]
             /\ response' = full_dispatch_request(result)
             /\ session_calls' = session_calls + 1
             /\ IF "question" \in response'.body.keys
                THEN /\ session_previous' =
                            Append(session_previous,
                                   response'.body.question[1].id)
                     /\ session_done' = FALSE
                ELSE /\ session_previous' = session_previous
                     /\ session_done' = TRUE
             /\ UNCHANGED <<store, session_category>>

NoSession ==
    /\ session_category = 0
    /\ session_previous = <<>>
    /\ session_calls = 0
    /\ session_done = FALSE

Init ==
    /\ questions = <<>>
    /\ next_id = 1
    /\ used_ids = {}
    /\ categories = Categories
    /\ request = NoRequest
    /\ response = NoResponse
    /\ NoSession

Next ==
    \/ GetAllCategories
    \/ GetQuestions
    \/ DeleteQuestion
    \/ PostQuestion
    \/ Search
    \/ GetQuestionsByCategory
    \/ GetQuizQuestions
    \/ RouteError
    \/ Reply

Spec == Init /\ [][Next]_vars

\* GET /questions over seeded tables of every size up to MaxSeed
InitPage ==
    /\ \E t \in Tables(MaxSeed) :
          /\ questions = t.questions
          /\ next_id = t.next_id
          /\ used_ids = 1..(t.next_id - 1)
    /\ categories = Categories
    /\ request = NoRequest
    /\ response = NoResponse
    /\ NoSession

NextPage ==
    \/ GetQuestions
    \/ Reply

SpecPage == InitPage /\ [][NextPage]_vars

\* one quiz session over a table no other request changes
InitQuiz ==
    /\ \E t \in Tables(MaxSession) :
          /\ questions = t.questions
          /\ next_id = t.next_id
          /\ used_ids = 1..(t.next_id - 1)
    /\ categories = Categories
    /\ request = NoRequest
    /\ response = NoResponse
    /\ session_category \in {0, 1, 2}
    /\ session_previous = <<>>
    /\ session_calls = 0
    /\ session_done = FALSE

NextQuiz ==
    \/ QuizSession
    \/ Reply

SpecQuiz == InitQuiz /\ [][NextQuiz]_vars
                /\ WF_vars(QuizSession) /\ WF_vars(Reply)

(***************************************************************************)
(* Properties.                                                             *)
(***************************************************************************)
Range(seq) == {seq[i] : i \in 1..Len(seq)}

IsOp(op) == request.op = op

\* the page number of the request: absent reads as "0"
PageNumeric == request.page.t = "absent" \/ ParseInt(request.page.s).ok
PageOf == IF request.page.t = "absent" THEN 0
          ELSE ParseInt(request.page.s).val

\* C1: GET /questions with page >= 1 answers the elements of the question
\* list at indices [(page-1)*10, page*10), shorter or empty past the end and
\* never an error; page 0 or no page answers the whole list; and
\* total_questions is always the length of the whole list.
C1_PageSlice ==
    (IsOp("get_questions") /\ PageNumeric /\ PageOf >= 0) =>
        LET L == FormatAll(questions)
            got == response.body.questions
            first == (PageOf - 1) * 10
        IN /\ response.status = 200
           /\ response.body.total_questions = Len(L)
           /\ PageOf = 0 => got = L
           /\ PageOf >= 1 =>
                 /\ Len(got) = Max(0, Min(Len(L), PageOf * 10) - first)
                 /\ \A i \in 1..Len(got) : got[i] = L[first + i]

\* the second page of a table of more than ten rows, shorter than a page
C1_Witness ==
    /\ IsOp("get_questions") /\ PageNumeric /\ PageOf = 2
    /\ Len(questions) > 10
    /\ Len(response.body.questions) = Len(questions) - 10
    /\ response.body.total_questions = Len(questions)

\* C2: a page parameter that is absent or not a numeric string is treated
\* as page 0: the answer is 200 with the whole question list.
C2_NonNumericPageIsPageZero ==
    (IsOp("get_questions") /\ (request.page.t = "absent" \/ ~PageNumeric)) =>
        /\ response.status = 200
        /\ response.body.questions = FormatAll(questions)

\* C3: DELETE /questions/<id> answers 404 with success=false when no
\* question has the id; otherwise it answers 200 {deleted: id} and the
\* question is gone, and stays gone while no question is created, so a
\* second delete of the id answers 404.
C3_Delete ==
    [][/\ request'.op = "delete_question" =>
             LET id == request'.question_id
             IN IF id \in Ids(questions)
                THEN /\ response'.status = 200
                     /\ response'.body.keys = {"deleted"}
                     /\ response'.body.deleted = id
                     /\ Ids(questions') = Ids(questions) \ {id}
                ELSE /\ response'.status = 404
                     /\ response'.body.success = FALSE
                     /\ questions' = questions
       /\ request'.op # "post_question" => Ids(questions') \subseteq Ids(questions)
      ]_vars

\* a delete answered 404 for an id a deleted question had
C3_Witness ==
    /\ IsOp("delete_question")
    /\ response.status = 404
    /\ request.question_id \in used_ids

\* C4: POST /questions answers 400 when one of question, answer, category,
\* difficulty is missing or falsy ("", null, 0); with all four truthy it
\* answers 200 with a question whose id no question of the store has or
\* ever had, whatever creates and deletes came before.
C4_Create ==
    [][request'.op = "post_question" =>
          LET json == request'.json
              falsy(v) == v = Absent \/ v = Str(<<>>) \/ v = Int_(0)
          IN IF falsy(json.question) \/ falsy(json.answer)
                \/ falsy(json.category) \/ falsy(json.difficulty)
             THEN response'.status = 400
             ELSE /\ response'.status = 200
                  /\ response'.body.keys = {"question"}
                  /\ Len(response'.body.question) = 1
                  /\ response'.body.question[1].id \notin used_ids
                  /\ response'.body.question[1].id \notin Ids(questions)
                  /\ response'.body.question[1] \in Range(FormatAll(questions'))
      ]_vars

\* a question created after a delete, with an id above the deleted one
C4_Witness ==
    /\ IsOp("post_question")
    /\ response.status = 200
    /\ Cardinality(used_ids) > Len(questions)
    /\ \A id \in used_ids : response.body.question[1].id >= id

\* the stored questions a quiz request may be answered with
Eligible(category_id, previous) ==
    {q \in Rows(questions) :
        /\ ~(\E i \in 1..Len(previous) : previous[i] = q.id)
        /\ category_id = 0 \/ q.category = category_id}

QuizWellFormed ==
    /\ IsOp("get_quiz_questions")
    /\ request.json.quiz_category.t = "obj"
    /\ "id" \in request.json.quiz_category.keys
    /\ request.json.previous_questions.t = "list"

\* C5: POST /quizzes with a quiz_category never answers a question whose id
\* is in previous_questions; with a nonzero quiz_category.id the question
\* has that category; the answer is 200 {} exactly when no stored question
\* qualifies and 200 with one qualifying question otherwise.  Without a
\* quiz_category the answer is 400.
C5_Quiz ==
    /\ QuizWellFormed =>
          LET can == Eligible(request.json.quiz_category.id,
                              request.json.previous_questions.l)
          IN /\ response.status = 200
             /\ can = {} <=> response.body.keys = {}
             /\ can # {} =>
                   /\ response.body.keys = {"question"}
                   /\ Len(response.body.question) = 1
                   /\ \E q \in can : response.body.question[1] = format(q)
    /\ (IsOp("get_quiz_questions") /\ request.json.quiz_category.t = "absent")
          => response.status = 400

\* a question of the asked category answered past a nonempty
\* previous_questions that names a stored question of that category
C5_Witness ==
    /\ QuizWellFormed
    /\ request.json.quiz_category.id # 0
    /\ \E q \in Rows(questions) :
          /\ q.category = request.json.quiz_category.id
          /\ \E i \in 1..Len(request.json.previous_questions.l) :
                request.json.previous_questions.l[i] = q.id
    /\ response.body.keys = {"question"}

\* C6: GET /categories/<id>/questions answers 400 with success=false for
\* id 0; for a nonzero id it answers 200 with exactly the stored questions
\* of that category, total_questions their number and current_category id.
C6_ByCategory ==
    IsOp("get_questions_by_category") =>
        LET id == request.category_id
            got == response.body.questions
        IN IF id = 0
           THEN response.status = 400 /\ response.body.success = FALSE
           ELSE /\ response.status = 200
                /\ \A i \in 1..Len(got) : got[i].category = id
                /\ \A q \in Rows(questions) :
                      q.category = id => format(q) \in Range(got)
                /\ Range(got) \subseteq Range(FormatAll(questions))
                /\ response.body.total_questions = Len(got)
                /\ Len(got) = Cardinality(Range(got))
                /\ response.body.current_category = id

\* some but not all stored questions have the asked category
C6_Witness ==
    /\ IsOp("get_questions_by_category")
    /\ response.status = 200
    /\ response.body.total_questions >= 1
    /\ response.body.total_questions < Len(questions)

TermOf == IF request.json.searchTerm.t = "absent" THEN <<>>
          ELSE request.json.searchTerm.s

\* a term of letters occurs in a text, case ignored
OccursIgnoringCase(term, text) ==
    \E i \in 1..(Len(text) + 1) :
       /\ i + Len(term) - 1 <= Len(text)
       /\ \A k \in 1..Len(term) : Lower(term[k]) = Lower(text[i + k - 1])

C8_Errors ==
    ~Idle =>
        /\ response.json
        /\ response.status \in {200, 400, 404, 405, 500}
        /\ response.status # 200 =>
              /\ response.body.keys = {"success", "error", "message"}
              /\ response.body.success = FALSE
              /\ response.body.error = response.status
        /\ response.status = 200 => "success" \notin response.body.keys
        /\ response.status = 500 =>
              response.body.message = "Something went wrong"
        /\ (IsOp("routing") /\ request.method = "DELETE"
              /\ request.path = "/questions") => response.status = 405
        /\ IsOp("routing") => response.status \in {404, 405}

\* an exception of the regular expression module answered as a 500
C8_Witness ==
    /\ IsOp("search")
    /\ ~ValidPattern(TermOf)
    /\ response.status = 500
    /\ response.body.error = 500

ReadOps == {"get_all_categories", "get_questions", "search",
            "get_questions_by_category", "get_quiz_questions", "routing"}

\* C9: no request changes the categories or the fields of a stored
\* question; only a POST /questions answered 200 adds a question, with the
\* fields of the request, and only a DELETE /questions/<id> answered 200
\* removes one; the reading requests and every request answered 400, 404
\* or 405 leave the store as it was.
C9_Frame ==
    [][/\ categories' = categories
       /\ \A q \in Rows(questions') :
             \/ q \in Rows(questions)
             \/ /\ request'.op = "post_question"
                /\ response'.status = 200
                /\ q.id \notin Ids(questions)
                /\ Str(q.question) = request'.json.question
                /\ Str(q.answer) = request'.json.answer
                /\ Int_(q.category) = request'.json.category
                /\ Int_(q.difficulty) = request'.json.difficulty
       /\ \A q \in Rows(questions) :
             \/ q \in Rows(questions')
             \/ /\ request'.op = "delete_question"
                /\ response'.status = 200
                /\ q.id = request'.question_id
       /\ request'.op \in ReadOps => questions' = questions
       /\ response'.status \in {400, 404, 405} => questions' = questions
       /\ Len(questions') = Cardinality(Ids(questions'))
      ]_vars

\* a rejected create over a store that holds questions
C9_Witness ==
    /\ IsOp("post_question")
    /\ response.status = 400
    /\ Len(questions) >= 2

SessionEligible == Eligible(session_category, <<>>)

\* C10: a quiz session over an unchanged store, starting with an empty
\* previous_questions and appending every id it is given, is given every
\* question eligible for its category exactly once and then {}: it ends
\* with the call number N+1, N the number of eligible questions, and no
\* question is repeated.
C10_Session ==
    /\ [](LET N == Cardinality(SessionEligible)
              seen == session_previous
          IN /\ \A i, j \in 1..Len(seen) : seen[i] = seen[j] => i = j
             /\ Range(seen) \subseteq {q.id : q \in SessionEligible}
             /\ ~session_done => session_calls = Len(seen) /\ Len(seen) <= N
             /\ session_done =>
                   /\ session_calls = N + 1
                   /\ Range(seen) = {q.id : q \in SessionEligible}
                   /\ Len(seen) = N)
    /\ <>session_done

\* a session that ended after several questions of one category, in a
\* store that holds questions of another category too
C10_Witness ==
    /\ session_done
    /\ session_category # 0
    /\ Len(session_previous) >= 2
    /\ Len(questions) > Len(session_previous)

====
